---- MODULE Spec2Model ----
(***************************************************************************)
(* A model of the traffic-signal optimisation core:                        *)
(*   simulation/traffic_simulator.py   TrafficSimulator (event playback)   *)
(*   optimization/genetic_algorithm.py GeneticAlgorithm (search loop)      *)
(*   optimization/fitness_functions.py composite fitness and penalty       *)
(*   simulation/queue_model.py         QueueModel, level_of_service        *)
(*                                                                         *)
(* Numbers.  Times and green times are Python floats.  They are modelled   *)
(* as fixed-point multiples of 1/Unit second ("ticks"); every division or  *)
(* multiplication by a fraction rounds to the nearest tick, as IEEE-754    *)
(* arithmetic rounds to the nearest double.  cycle_length is an integer    *)
(* number of seconds, as in the source.                                    *)
(*                                                                         *)
(* Randomness.  The source draws from the two process-wide generators      *)
(* `random` and `numpy.random`.  In the genetic algorithm they are the     *)
(* variables pyRng and npRng: a seeded state and a deterministic successor *)
(* (a small linear congruential generator standing for the Mersenne        *)
(* Twister).  In the simulator the exponential inter-arrival draws are     *)
(* nondeterministic choices from GapDraws.                                 *)
(***************************************************************************)
EXTENDS Integers, Sequences, FiniteSets, TLC

VARIABLES
    \* ---- TrafficSimulator ------------------------------------------------
    signal_timing,      \* self.signal_timing of the simulator
    state,              \* self.state : IntersectionState
    vehicle_counter,    \* self.vehicle_counter
    events,             \* self.events
    simPc,              \* position inside run_simulation
    genDirs,            \* directions of traffic_volumes still to generate
    genTime,            \* local current_time of _generate_arrivals
    evIdx,              \* index of the next event of the playback loop
    duration,           \* simulation_duration of the current call
    runs,               \* number of run_simulation calls started
    prior,              \* whether the simulator held anything when the call began
    results,            \* what the last run_simulation call returned
    \* ---- GeneticAlgorithm ------------------------------------------------
    ga,                 \* the constructor's arguments, kept on self
    population,         \* self.population
    best_individual,    \* self.best_individual
    fitness_history,    \* self.fitness_history
    pyRng,              \* state of the process-wide generator of `random`
    npRng,              \* state of the process-wide generator of `numpy.random`
    gaPc,               \* position inside optimize
    generation,         \* loop variable of the evolution loop
    inputs,             \* initial_timing and fitness_function of the caller
    summary,            \* what the last optimize call returned
    calls,              \* optimize calls started on the current instance
    instances,          \* GeneticAlgorithm objects constructed so far
    history_base,       \* len(self.fitness_history) when the current call began
    first_run,          \* what the first instance's first call returned
    parents,            \* local of optimize: the selected parents
    offspring,          \* local of optimize: the offspring of this generation
    evaluations,        \* calls of the fitness function made by the current call
    ownNp,              \* numpy's generator had only this instance drawn from it
    \* ---- fitness_functions ----------------------------------------------
    fit,                \* the arguments of the calls, which were made, their values
    \* ---- queue_model ----------------------------------------------------
    qm                  \* the QueueModel, the call in progress, what it returned

simVars == <<signal_timing, state, vehicle_counter, events, simPc, genDirs,
             genTime, evIdx, duration, runs, prior, results>>

gaVars == <<ga, population, best_individual, fitness_history, pyRng, npRng,
            gaPc, generation, inputs, summary, calls, instances, history_base,
            first_run, parents, offspring, evaluations, ownNp>>

fitVars == <<fit>>

qmVars == <<qm>>

vars == <<simVars, gaVars, fitVars, qmVars>>

----------------------------------------------------------------------------
(* Bounds of the model *)

\* ticks per second of the fixed-point representation
Unit == 2
\* most vehicles generated in one run_simulation call
MaxVehicles == 3
\* most run_simulation calls on one simulator
MaxRuns == 2
\* largest population_size
MaxPop == 4
\* largest generations
MaxGen == 2
\* random_seed ranges over 0..MaxSeed
MaxSeed == 6
\* most optimize calls on one GeneticAlgorithm
MaxCalls == 2
\* most GeneticAlgorithm objects constructed
MaxInstances == 2
\* fractional steps kept of the scale factor of the normalisation
ScalePrecision == 1024

----------------------------------------------------------------------------
(* Arithmetic helpers *)

Min(a, b) == IF a < b THEN a ELSE b
Max(a, b) == IF a > b THEN a ELSE b

\* int(x) of a non-negative quotient num/den: truncation
TruncDiv(num, den) == num \div den

\* round-to-nearest quotient, den > 0
RoundDiv(num, den) == (2 * num + den) \div (2 * den)

\* Python's None (a record, so that it compares with records)
None == [none |-> TRUE]

----------------------------------------------------------------------------
(* TrafficSimulator *)

Directions == <<"N", "S", "E", "W">>
DirSet == {"N", "S", "E", "W"}

\* saturation_flow_rate default of TrafficSimulator.__init__ (vehicles/hour)
saturation_flow_rate == 1800

\* green times (ticks) of the timings the simulator is constructed with
SimGreens == {0, 2 * Unit, 4 * Unit}
\* simulation_duration values (ticks)
Durations == {5 * Unit}
\* inter-arrival gaps (ticks) np.random.exponential may return
GapDraws == {0, Unit + 1, 2 * Unit, 5 * Unit}

\* the timings a simulator is constructed with; green_time_south and
\* green_time_west are never read by the simulator
SimTimings ==
    [cycle_length : {90}, green_time_north : SimGreens,
     green_time_east : SimGreens]

\* IntersectionState(signal_timing=...) with its field defaults
FreshState ==
    [current_time |-> 0, current_phase |-> "NS", phase_start_time |-> 0,
     queues |-> [d \in DirSet |-> <<>>], vehicles_processed |-> <<>>]

NewVehicle(id, t, d) ==
    [id |-> id, arrival_time |-> t, direction |-> d,
     departure_time |-> 0, delay |-> 0, stops |-> 0]

\* TrafficSimulator.__init__ (lines 56-66)
SimConstructed ==
    /\ signal_timing \in SimTimings
    /\ state = FreshState
    /\ vehicle_counter = 0
    /\ events = <<>>
    /\ simPc = "idle"
    /\ genDirs = <<>>
    /\ genTime = 0
    /\ evIdx = 1
    /\ duration = 0
    /\ runs = 0
    /\ prior = [processed |-> FALSE, queued |-> FALSE, events |-> FALSE]
    /\ results = None

QueuedCount(st) ==
    Len(st.queues["N"]) + Len(st.queues["S"]) + Len(st.queues["E"]) + Len(st.queues["W"])

\* RunSimulation without lines 86-87: state and vehicle counter are kept
RunSimulation_NoReset ==
    /\ simPc \in {"idle", "done", "raised"}
    /\ runs < MaxRuns
    /\ \E dur \in Durations, vols \in SUBSET DirSet :
        /\ duration' = dur
        /\ genDirs' = SelectSeq(Directions, LAMBDA d : d \in vols)
    /\ prior' = [processed |-> state.vehicles_processed # <<>>,
                 queued |-> QueuedCount(state) > 0,
                 events |-> events # <<>>]
    /\ events' = <<>>
    /\ genTime' = 0
    /\ evIdx' = 1
    /\ runs' = runs + 1
    /\ results' = None
    /\ simPc' = "arrivals"
    /\ UNCHANGED <<signal_timing, state, vehicle_counter, gaVars, fitVars, qmVars>>

\* run_simulation, lines 85-90 and 122: reset, then enter _generate_arrivals.
\* vols is the set of directions whose hourly volume is positive.
RunSimulation ==
    /\ simPc \in {"idle", "done", "raised"}
    /\ runs < MaxRuns
    /\ \E dur \in Durations, vols \in SUBSET DirSet :
        /\ duration' = dur
        /\ genDirs' = SelectSeq(Directions, LAMBDA d : d \in vols)
    /\ prior' = [processed |-> state.vehicles_processed # <<>>,
                 queued |-> QueuedCount(state) > 0,
                 events |-> events # <<>>]
    /\ state' = FreshState
    /\ vehicle_counter' = 0
    /\ events' = <<>>
    /\ genTime' = 0
    /\ evIdx' = 1
    /\ runs' = runs + 1
    /\ results' = None
    /\ simPc' = "arrivals"
    /\ UNCHANGED <<signal_timing, gaVars, fitVars, qmVars>>

\* one iteration of the while loop of _generate_arrivals (lines 133-145)
GenerateArrival ==
    /\ simPc = "arrivals"
    /\ genDirs # <<>>
    /\ \E gap \in GapDraws :
        LET t == genTime + gap IN
        /\ (vehicle_counter >= MaxVehicles) => t >= duration
        /\ IF t < duration
           THEN /\ events' = Append(events,
                        [time |-> t, type |-> "arrival",
                         data |-> NewVehicle(vehicle_counter, t, Head(genDirs))])
                /\ vehicle_counter' = vehicle_counter + 1
                /\ genTime' = t
                /\ UNCHANGED genDirs
           ELSE /\ genDirs' = Tail(genDirs)
                /\ genTime' = 0
                /\ UNCHANGED <<events, vehicle_counter>>
    /\ UNCHANGED <<signal_timing, state, simPc, evIdx, duration, runs, prior,
                   results, gaVars, fitVars, qmVars>>

\* whether the signal-change loop (lines 152-160) ends: current_time starts
\* at 0 and each iteration adds ns_green + ew_green to it
SignalLoopEnds(dur, ns_green, ew_green) ==
    dur <= 0 \/ ns_green + ew_green > 0

\* the signal-change loop of _generate_arrivals (lines 152-160), when it ends
RECURSIVE SignalEvents(_, _, _, _)
SignalEvents(t, dur, ns_green, ew_green) ==
    IF t < dur
    THEN <<[time |-> t, type |-> "signal_change", data |-> "NS"],
           [time |-> t + ns_green, type |-> "signal_change", data |-> "EW"]>>
         \o SignalEvents(t + ns_green + ew_green, dur, ns_green, ew_green)
    ELSE <<>>

\* list.sort(key=lambda x: x[0]): stable
RECURSIVE InsertByTime(_, _)
InsertByTime(sorted, e) ==
    IF sorted = <<>> THEN <<e>>
    ELSE IF sorted[Len(sorted)].time <= e.time THEN Append(sorted, e)
    ELSE Append(InsertByTime(SubSeq(sorted, 1, Len(sorted) - 1), e), sorted[Len(sorted)])

RECURSIVE SortByTime(_)
SortByTime(s) ==
    IF s = <<>> THEN <<>>
    ELSE InsertByTime(SortByTime(SubSeq(s, 1, Len(s) - 1)), s[Len(s)])

\* lines 147-160 and 93: append the signal changes, sort the event list.
\* When the loop does not end the call never returns: the event list grows
\* until memory is exhausted (pc "diverged", the list left as it was).
GenerateSignals ==
    /\ simPc = "arrivals"
    /\ genDirs = <<>>
    /\ IF SignalLoopEnds(duration, signal_timing.green_time_north,
                         signal_timing.green_time_east)
       THEN /\ events' = SortByTime(events \o
                    SignalEvents(0, duration, signal_timing.green_time_north,
                                 signal_timing.green_time_east))
            /\ simPc' = "play"
       ELSE /\ events' = events
            /\ simPc' = "diverged"
    /\ UNCHANGED <<signal_timing, state, vehicle_counter, genDirs, genTime,
                   evIdx, duration, runs, prior, results, gaVars, fitVars, qmVars>>

ActiveDirections(phase) == IF phase = "NS" THEN <<"N", "S">> ELSE <<"E", "W">>

NominalGreen(phase) ==
    IF phase = "NS" THEN signal_timing.green_time_north ELSE signal_timing.green_time_east

\* RemainingGreen that forgets the time already spent in the phase
RemainingGreen_Nominal(st) == NominalGreen(st.current_phase)

RemainingGreen(st) ==
    Max(0, NominalGreen(st.current_phase) - (st.current_time - st.phase_start_time))

\* int(self.service_rate * remaining_green), service_rate in vehicles/second
ServiceCapacity(remaining_green) ==
    TruncDiv(saturation_flow_rate * remaining_green, 3600 * Unit)

Stamp(v, now) ==
    [v EXCEPT !.departure_time = now, !.delay = now - v.arrival_time]

\* ServeDirection leaving the served vehicles in the queue
ServeDirection_Keep(st, d, remaining_green) ==
    LET queue == st.queues[d]
        n == Min(Len(queue), ServiceCapacity(remaining_green))
        served == [i \in 1..n |-> Stamp(queue[i], st.current_time)]
    IN [st EXCEPT !.vehicles_processed = st.vehicles_processed \o served]

\* ServeDirection taking the vehicles from the tail of the queue
ServeDirection_Lifo(st, d, remaining_green) ==
    LET queue == st.queues[d]
        n == Min(Len(queue), ServiceCapacity(remaining_green))
        served == [i \in 1..n |-> Stamp(queue[Len(queue) + 1 - i], st.current_time)]
    IN [st EXCEPT !.queues[d] = SubSeq(queue, 1, Len(queue) - n),
                  !.vehicles_processed = st.vehicles_processed \o served]

\* the body of the for loop of _serve_vehicles for one direction (211-224)
ServeDirection(st, d, remaining_green) ==
    LET queue == st.queues[d]
        n == Min(Len(queue), ServiceCapacity(remaining_green))
        served == [i \in 1..n |-> Stamp(queue[i], st.current_time)]
    IN [st EXCEPT !.queues[d] = SubSeq(queue, n + 1, Len(queue)),
                  !.vehicles_processed = st.vehicles_processed \o served]

\* _serve_vehicles (lines 188-224)
ServeVehicles(st) ==
    LET active == ActiveDirections(st.current_phase)
        remaining_green == RemainingGreen(st)
    IN IF remaining_green <= 0 THEN st
       ELSE ServeDirection(ServeDirection(st, active[1], remaining_green),
                           active[2], remaining_green)

\* _handle_arrival (lines 164-173)
HandleArrival(st, vehicle) ==
    ServeVehicles(
        IF vehicle.direction \in DOMAIN st.queues
        THEN [st EXCEPT !.queues[vehicle.direction] = Append(@, vehicle)]
        ELSE st)

\* _handle_signal_change (lines 175-186)
HandleSignalChange(st) ==
    ServeVehicles(
        [st EXCEPT !.current_phase = IF @ = "NS" THEN "EW" ELSE "NS",
                   !.phase_start_time = st.current_time])

\* one iteration of the playback loop of run_simulation (lines 96-102)
ProcessEvent ==
    /\ simPc = "play"
    /\ evIdx <= Len(events)
    /\ LET e == events[evIdx]
           st == [state EXCEPT !.current_time = e.time]
       IN state' = IF e.type = "arrival" THEN HandleArrival(st, e.data)
                   ELSE HandleSignalChange(st)
    /\ evIdx' = evIdx + 1
    /\ UNCHANGED <<signal_timing, vehicle_counter, events, simPc, genDirs,
                   genTime, duration, runs, prior, results, gaVars, fitVars, qmVars>>

\* LevelOfService with exclusive upper breakpoints
LevelOfService_Strict(delay) ==
    IF delay < 10 * Unit THEN "A"
    ELSE IF delay < 20 * Unit THEN "B"
    ELSE IF delay < 35 * Unit THEN "C"
    ELSE IF delay < 55 * Unit THEN "D"
    ELSE IF delay < 80 * Unit THEN "E"
    ELSE "F"

\* level_of_service of queue_model.py (lines 249-260); delay in ticks
LevelOfService(delay) ==
    IF delay <= 10 * Unit THEN "A"
    ELSE IF delay <= 20 * Unit THEN "B"
    ELSE IF delay <= 35 * Unit THEN "C"
    ELSE IF delay <= 55 * Unit THEN "D"
    ELSE IF delay <= 80 * Unit THEN "E"
    ELSE "F"

RECURSIVE SumDelays(_)
SumDelays(vs) == IF vs = <<>> THEN 0 ELSE Head(vs).delay + SumDelays(Tail(vs))

RECURSIVE SumStops(_)
SumStops(vs) == IF vs = <<>> THEN 0 ELSE Head(vs).stops + SumStops(Tail(vs))

RECURSIVE MaxDelay(_)
MaxDelay(vs) == IF vs = <<>> THEN 0 ELSE Max(Head(vs).delay, MaxDelay(Tail(vs)))

\* vehicles per hour: count / (current_time / 3600.0), current_time in ticks
PerHour(count, current_time) == RoundDiv(count * 3600 * Unit, current_time)

\* whether _calculate_metrics divides by simulation_hours = 0 (line 268):
\* vehicles were served and the last event is at time 0
MetricsRaise(st) ==
    st.vehicles_processed # <<>> /\ st.current_time = 0

\* _calculate_metrics (lines 226-283) when it returns; delays in ticks
CalculateMetrics(st) ==
    LET processed == st.vehicles_processed
        n == Len(processed)
        avg_delay == RoundDiv(SumDelays(processed), n)
        served(d) == SelectSeq(processed, LAMBDA v : v.direction = d)
    IN IF processed = <<>>
       THEN [throughput |-> 0, avg_delay |-> 0, max_delay |-> 0, avg_stops |-> 0,
             max_queue_length |-> 0, level_of_service |-> "F"]
       ELSE [throughput |-> PerHour(n, st.current_time),
             avg_delay |-> avg_delay,
             max_delay |-> MaxDelay(processed),
             avg_stops |-> RoundDiv(SumStops(processed), n),
             max_queue_length |->
                 Max(Max(Max(Len(st.queues["N"]), Len(st.queues["S"])),
                         Max(Len(st.queues["E"]), Len(st.queues["W"]))), 1),
             level_of_service |-> LevelOfService(avg_delay),
             total_vehicles_processed |-> n,
             direction_metrics |->
                 [d \in {x \in DirSet : served(x) # <<>>} |->
                     [throughput |-> PerHour(Len(served(d)), st.current_time),
                      avg_delay |-> RoundDiv(SumDelays(served(d)), Len(served(d)))]]]

\* the end of the playback loop (lines 104-108): the metrics are computed
\* and returned, or the ZeroDivisionError of line 268 reaches the caller
FinishSimulation ==
    /\ simPc = "play"
    /\ evIdx > Len(events)
    /\ IF MetricsRaise(state)
       THEN simPc' = "raised" /\ results' = None
       ELSE simPc' = "done" /\ results' = CalculateMetrics(state)
    /\ UNCHANGED <<signal_timing, state, vehicle_counter, events, genDirs,
                   genTime, evIdx, duration, runs, prior, gaVars, fitVars, qmVars>>

----------------------------------------------------------------------------
(* The process-wide random generators *)

\* the generator's next state: one raw draw consumed
NextRng(r) == (75 * r + 74) % 65537

\* random.seed(random_seed) and np.random.seed(random_seed)
SeedPy(seed) == (7919 * seed + 104729) % 65537
SeedNp(seed) == (31337 * seed + 4242) % 65537

\* random.random(), in hundredths: a value in 0..99
Random01(r) == (r * 100) \div 65537
\* random's _randbelow(n): a value in 0..n-1
RandBelow(r, n) == (r * n) \div 65537
\* random.randint(lo, hi)
RandInt(r, lo, hi) == lo + RandBelow(r, hi - lo + 1)
\* random.uniform(lo, hi), ticks
Uniform(r, lo, hi) == lo + (r * (hi - lo)) \div 65537

\* standard normal deviates, in tenths, one per octile of the raw draw
NormalTable == <<-30, -12, -5, -1, 1, 5, 12, 30>>
\* np.random.normal(0, (max_val - min_val) * 0.1), ticks; range in seconds
Normal(r, range) ==
    RoundDiv(NormalTable[RandBelow(r, 8) + 1] * range * Unit, 100)

----------------------------------------------------------------------------
(* GeneticAlgorithm *)

Parameters == <<"cycle_length", "green_time_north", "green_time_south",
                "green_time_east", "green_time_west">>

\* _get_default_constraints (lines 331-337), in seconds
Constraint(param) ==
    IF param = "cycle_length" THEN <<45, 120>> ELSE <<10, 60>>

\* The identity of a timing dict.  Individuals hold their signal_timing by
\* reference: ref names the dict object, signal_timing is what it holds.
\* A dict is named after the place that created it.
NewRef(site, idx) ==
    [site |-> site, inst |-> instances, call |-> calls, gen |-> generation,
     idx |-> idx]

\* the dict the caller passes to optimize as initial_timing
CallerRef == [site |-> "caller", inst |-> 0, call |-> 0, gen |-> 0, idx |-> 0]

\* DeepCopy returning its argument: the copy is the original object
DeepCopy_Alias(original, fresh) == original

\* copy.deepcopy: the copy is a new object, named fresh
DeepCopy(original, fresh) == fresh

\* Individual.__init__ (lines 25-27): the dict is kept, not copied; made_by
\* records which operation built the timing (history only, not a field of
\* the source)
Individual(timing, made_by, ref) ==
    [signal_timing |-> timing, fitness |-> 0, simulation_results |-> None,
     made_by |-> made_by, ref |-> ref]

\* an assignment into the dict ref, which then holds timing
Write(ref, timing) == [ref |-> ref, timing |-> timing]

\* what the dict ref holds after the writes, timing being what it held before
Written(ref, timing, writes) ==
    LET hits == {k \in 1..Len(writes) : writes[k].ref = ref}
    IN IF hits = {} THEN timing
       ELSE writes[CHOOSE k \in hits : \A j \in hits : j <= k].timing

\* the individuals as they are after the writes: every holder of a written
\* dict sees the new content
ApplyWrites(seq, writes) ==
    [i \in 1..Len(seq) |->
        [seq[i] EXCEPT !.signal_timing = Written(seq[i].ref, @, writes)]]

AvailableGreen(timing) ==
    timing.cycle_length * Unit - (timing.yellow_time + timing.all_red_time) * 2

\* ns_green *= scale_factor with scale_factor = available_green / total_green:
\* the quotient is rounded to ScalePrecision fractional steps, the product to
\* the nearest tick
Scaled(green, available_green, total_green) ==
    RoundDiv(green * RoundDiv(available_green * ScalePrecision, total_green),
             ScalePrecision)

\* NormalizeGreenTimes without the scaling branch
NormalizeGreenTimes_NoScale(timing) ==
    LET ns_green == RoundDiv(timing.green_time_north + timing.green_time_south, 2)
        ew_green == RoundDiv(timing.green_time_east + timing.green_time_west, 2)
    IN [timing EXCEPT !.green_time_north = ns_green, !.green_time_south = ns_green,
                      !.green_time_east = ew_green, !.green_time_west = ew_green]

\* _normalize_green_times (lines 203-227)
NormalizeGreenTimes(timing) ==
    LET available_green == AvailableGreen(timing)
        ns_green == RoundDiv(timing.green_time_north + timing.green_time_south, 2)
        ew_green == RoundDiv(timing.green_time_east + timing.green_time_west, 2)
        total_green == ns_green + ew_green
        scale == total_green > available_green
        ns == IF scale THEN Scaled(ns_green, available_green, total_green) ELSE ns_green
        ew == IF scale THEN Scaled(ew_green, available_green, total_green) ELSE ew_green
    IN [timing EXCEPT !.green_time_north = ns, !.green_time_south = ns,
                      !.green_time_east = ew, !.green_time_west = ew]

\* the body of the for loop of _initialize_population (lines 177-192);
\* five draws from `random`
RandomIndividual(initial_timing, r, idx) ==
    LET r1 == NextRng(r)
        r2 == NextRng(r1)
        r3 == NextRng(r2)
        r4 == NextRng(r3)
        lo == Constraint("green_time_north")[1] * Unit
        hi == Constraint("green_time_north")[2] * Unit
        timing ==
            [initial_timing EXCEPT
                !.cycle_length = RandInt(r, Constraint("cycle_length")[1],
                                         Constraint("cycle_length")[2]),
                !.green_time_north = Uniform(r1, lo, hi),
                !.green_time_south = Uniform(r2, lo, hi),
                !.green_time_east = Uniform(r3, lo, hi),
                !.green_time_west = Uniform(r4, lo, hi)]
        ref == DeepCopy(CallerRef, NewRef("init", idx))
    IN [individual |-> Individual(NormalizeGreenTimes(timing), "random", ref),
        writes |-> <<Write(ref, NormalizeGreenTimes(timing))>>,
        py |-> NextRng(r4)]

RECURSIVE RandomIndividuals(_, _, _)
RandomIndividuals(count, initial_timing, r) ==
    IF count <= 0 THEN [population |-> <<>>, writes |-> <<>>, py |-> r]
    ELSE LET one == RandomIndividual(initial_timing, r, count)
             rest == RandomIndividuals(count - 1, initial_timing, one.py)
         IN [population |-> <<one.individual>> \o rest.population,
             writes |-> one.writes \o rest.writes, py |-> rest.py]

\* InitializePopulation without line 173: every individual is random
InitializePopulation_AllRandom(initial_timing, population_size, r) ==
    LET all == RandomIndividuals(population_size, initial_timing, r)
    IN [population |-> ApplyWrites(all.population, all.writes),
        writes |-> all.writes, py |-> all.py]

\* _initialize_population (lines 170-194)
InitializePopulation(initial_timing, population_size, r) ==
    LET rest == RandomIndividuals(population_size - 1, initial_timing, r)
        first == Individual(initial_timing, "initial",
                            DeepCopy(CallerRef, NewRef("init", 0)))
    IN [population |-> ApplyWrites(<<first>> \o rest.population, rest.writes),
        writes |-> rest.writes, py |-> rest.py]

\* the faulty evaluator raises on a cycle_length below FaultyBelow or above
\* FaultyAbove seconds
FaultyBelow == 50
FaultyAbove == 110

\* The injected fitness_function.
\*   inverse_cycle  simple_fitness of the tests: 1.0 / cycle_length
\*   simulation     fitness_func of main.py: a TrafficSimulator constructed
\*                  per call (which seeds numpy's generator with 42) and one
\*                  run of it; the score depends on the timing alone
\*   stochastic     an evaluator that draws its score from numpy's generator
\*   faulty         inverse_cycle, but raising an exception on the timings
\*                  whose cycle_length is outside FaultyBelow..FaultyAbove
\* raised tells whether the call raised instead of returning.
FitnessFunction(kind, timing, np) ==
    CASE kind = "inverse_cycle" ->
            [fitness |-> RoundDiv(1000000, timing.cycle_length), np |-> np,
             raised |-> FALSE]
      [] kind = "simulation" ->
            [fitness |-> Min(timing.green_time_north, timing.green_time_east)
                         - timing.cycle_length,
             np |-> NextRng(SeedNp(42)), raised |-> FALSE]
      [] kind = "faulty" ->
            [fitness |-> RoundDiv(1000000, timing.cycle_length), np |-> np,
             raised |-> timing.cycle_length \notin FaultyBelow..FaultyAbove]
      [] OTHER ->
            [fitness |-> RandBelow(np, 4), np |-> NextRng(np), raised |-> FALSE]

\* EvaluatePopulation swallowing the evaluator's exception: the individual
\* is left as it was and the loop goes on
RECURSIVE EvaluatePopulation_Swallow(_, _, _)
EvaluatePopulation_Swallow(pop, kind, np) ==
    IF pop = <<>> THEN [population |-> <<>>, np |-> np, raised |-> FALSE, made |-> 0]
    ELSE LET got == FitnessFunction(kind, Head(pop).signal_timing, np)
             rest == EvaluatePopulation_Swallow(Tail(pop), kind, got.np)
         IN [population |->
                <<IF got.raised THEN Head(pop)
                  ELSE [Head(pop) EXCEPT !.fitness = got.fitness,
                                         !.simulation_results = [score |-> got.fitness]]>>
                \o rest.population,
             np |-> rest.np, raised |-> FALSE, made |-> 1 + rest.made]

\* _evaluate_population (lines 236-239): the loop ends at the first call
\* that raises, the individuals from there on left as they were.
\* made counts the calls of the fitness function.
RECURSIVE EvaluatePopulation(_, _, _)
EvaluatePopulation(pop, kind, np) ==
    IF pop = <<>> THEN [population |-> <<>>, np |-> np, raised |-> FALSE, made |-> 0]
    ELSE LET got == FitnessFunction(kind, Head(pop).signal_timing, np)
             rest == EvaluatePopulation(Tail(pop), kind, got.np)
         IN IF got.raised
            THEN [population |-> pop, np |-> got.np, raised |-> TRUE, made |-> 1]
            ELSE [population |->
                     <<[Head(pop) EXCEPT !.fitness = got.fitness,
                                         !.simulation_results = [score |-> got.fitness]]>>
                     \o rest.population,
                  np |-> rest.np, raised |-> rest.raised, made |-> 1 + rest.made]

\* list.sort(key=lambda x: x.fitness, reverse=True): stable, descending
RECURSIVE InsertByFitness(_, _)
InsertByFitness(sorted, x) ==
    IF sorted = <<>> THEN <<x>>
    ELSE IF sorted[Len(sorted)].fitness >= x.fitness THEN Append(sorted, x)
    ELSE Append(InsertByFitness(SubSeq(sorted, 1, Len(sorted) - 1), x),
                sorted[Len(sorted)])

RECURSIVE SortByFitness(_)
SortByFitness(pop) ==
    IF pop = <<>> THEN <<>>
    ELSE InsertByFitness(SortByFitness(SubSeq(pop, 1, Len(pop) - 1)), pop[Len(pop)])

\* seq[:k] of Python, k of either sign
PyPrefix(seq, k) ==
    IF k >= 0 THEN SubSeq(seq, 1, Min(k, Len(seq)))
    ELSE SubSeq(seq, 1, Max(0, Len(seq) + k))

\* random.sample(population, 3) for a population of at least 3: CPython's
\* pool algorithm, three draws
Sample(pop, r) ==
    LET n == Len(pop)
        j1 == RandBelow(r, n) + 1
        pool1 == [pop EXCEPT ![j1] = pop[n]]
        r1 == NextRng(r)
        j2 == RandBelow(r1, n - 1) + 1
        pool2 == [pool1 EXCEPT ![j2] = pool1[n - 1]]
        r2 == NextRng(r1)
        j3 == RandBelow(r2, n - 2) + 1
    IN [tournament |-> <<pop[j1], pool1[j2], pool2[j3]>>, py |-> NextRng(r2)]

\* max(tournament, key=lambda x: x.fitness): the first of the largest
Winner(tournament) ==
    LET best == CHOOSE i \in 1..Len(tournament) :
                    /\ \A j \in 1..Len(tournament) :
                          tournament[j].fitness <= tournament[i].fitness
                    /\ \A j \in 1..(i - 1) :
                          tournament[j].fitness < tournament[i].fitness
    IN tournament[best]

\* _selection (lines 248-257) for a population of at least tournament_size
RECURSIVE Selection(_, _, _)
Selection(pop, count, r) ==
    IF count <= 0 THEN [parents |-> <<>>, py |-> r]
    ELSE LET s == Sample(pop, r)
             rest == Selection(pop, count - 1, s.py)
             winner == Winner(s.tournament)
             copy == [winner EXCEPT !.ref = DeepCopy(winner.ref, NewRef("selection", count))]
         IN [parents |-> <<copy>> \o rest.parents, py |-> rest.py]

\* the for loop of _crossover (lines 281-284) from parameter i on
RECURSIVE CrossParams(_, _, _, _, _, _)
CrossParams(i, child1, child2, parent1, parent2, r) ==
    IF i > Len(Parameters) THEN [child1 |-> child1, child2 |-> child2, py |-> r]
    ELSE LET param == Parameters[i]
             swap == Random01(r) < 50
         IN CrossParams(i + 1,
                IF swap THEN [child1 EXCEPT ![param] = parent2[param]] ELSE child1,
                IF swap THEN [child2 EXCEPT ![param] = parent1[param]] ELSE child2,
                parent1, parent2, NextRng(r))

\* _crossover (lines 274-290)
Crossover(parent1, parent2, r, idx) ==
    LET x == CrossParams(1, parent1.signal_timing, parent2.signal_timing,
                         parent1.signal_timing, parent2.signal_timing, r)
        ref1 == DeepCopy(parent1.ref, NewRef("crossover", idx))
        ref2 == DeepCopy(parent2.ref, NewRef("crossover", idx + 1))
    IN [child1 |-> Individual(NormalizeGreenTimes(x.child1), "crossover", ref1),
        child2 |-> Individual(NormalizeGreenTimes(x.child2), "crossover", ref2),
        writes |-> <<Write(ref1, NormalizeGreenTimes(x.child1)),
                     Write(ref2, NormalizeGreenTimes(x.child2))>>,
        py |-> x.py]

\* np.clip(x, lo, hi)
Clip(x, lo, hi) == Max(lo, Min(x, hi))

\* MutatedValue without np.clip
MutatedValue_NoClip(param, current_val, mutation) ==
    IF param = "cycle_length"
    THEN TruncDiv(current_val * Unit + mutation, Unit)
    ELSE current_val + mutation

\* lines 315-322 of _mutate: the new value of param, in the field's own unit
MutatedValue(param, current_val, mutation) ==
    LET min_val == Constraint(param)[1] * Unit
        max_val == Constraint(param)[2] * Unit
    IN IF param = "cycle_length"
       THEN TruncDiv(Clip(current_val * Unit + mutation, min_val, max_val), Unit)
       ELSE Clip(current_val + mutation, min_val, max_val)

\* _mutate (lines 307-327): one draw from `random`, one from numpy
Mutate(individual, r, np) ==
    LET timing == individual.signal_timing
        param == Parameters[RandBelow(r, Len(Parameters)) + 1]
        mutation == Normal(np, Constraint(param)[2] - Constraint(param)[1])
        mutated == [timing EXCEPT ![param] = MutatedValue(param, timing[param], mutation)]
    IN [individual |-> Individual(NormalizeGreenTimes(mutated), "mutation",
                                  individual.ref),
        writes |-> <<Write(individual.ref, NormalizeGreenTimes(mutated))>>,
        py |-> NextRng(r), np |-> NextRng(np)]

\* lines 117-120: mutate the child with probability mutation_rate
MaybeMutate(child, mutation_rate, r, np) ==
    IF Random01(r) < mutation_rate
    THEN Mutate(child, NextRng(r), np)
    ELSE [individual |-> child, writes |-> <<>>, py |-> NextRng(r), np |-> np]

\* the body of the offspring loop (lines 108-122) for parents i and i+1;
\* x is the pair after crossover or copy, m1 and m2 the children after their
\* mutation, each bound to its value as the loop body assigns it
BreedPair(parent1, parent2, params, r, np, idx) ==
    CHOOSE pair \in UNION UNION
        {{{[offspring |-> <<m1.individual, m2.individual>>,
            writes |-> x.writes \o m1.writes \o m2.writes,
            py |-> m2.py, np |-> m2.np]
            : m2 \in {MaybeMutate(x.child2, params.mutation_rate, m1.py, m1.np)}}
            : m1 \in {MaybeMutate(x.child1, params.mutation_rate, x.py, np)}}
            : x \in {IF Random01(r) < params.crossover_rate
                     THEN Crossover(parent1, parent2, NextRng(r), idx)
                     ELSE [child1 |-> [parent1 EXCEPT !.ref =
                                          DeepCopy(parent1.ref, NewRef("copy", idx))],
                           child2 |-> [parent2 EXCEPT !.ref =
                                          DeepCopy(parent2.ref, NewRef("copy", idx + 1))],
                           writes |-> <<>>, py |-> NextRng(r)]}} : TRUE

\* for i in range(0, len(parents) - 1, 2) (lines 106-122), i counted from 1
RECURSIVE Breed(_, _, _, _, _)
Breed(i, selected, params, r, np) ==
    IF i + 1 > Len(selected)
    THEN [offspring |-> <<>>, writes |-> <<>>, py |-> r, np |-> np]
    ELSE CHOOSE bred \in UNION
            {{[offspring |-> pair.offspring \o rest.offspring,
               writes |-> pair.writes \o rest.writes,
               py |-> rest.py, np |-> rest.np]
               : rest \in {Breed(i + 2, selected, params, pair.py, pair.np)}}
               : pair \in {BreedPair(selected[i], selected[i + 1], params, r, np, i)}}
            : TRUE

\* NewPopulation without the elite: the offspring alone
NewPopulation_NoElite(pop, children, params) ==
    PyPrefix(children, params.population_size)

\* lines 125-129: the population of the next generation
NewPopulation(pop, children, params) ==
    PyPrefix(SortByFitness(pop), params.elitism_count)
    \o PyPrefix(children, params.population_size - params.elitism_count)

\* the constructor arguments explored; __init__ checks none of them, so
\* elitism_count may exceed population_size
Hyperparameters ==
    [population_size : 1..MaxPop, generations : 1..MaxGen,
     mutation_rate : {10, 100}, crossover_rate : {80},
     elitism_count : 0..MaxPop, random_seed : 0..MaxSeed]

\* initial_timing values: the plan of the tests, and one whose green times
\* are unequal and exceed the available green; seconds scaled to ticks
InitialTimings ==
    {[cycle_length |-> 90, green_time_north |-> 35 * Unit, green_time_south |-> 35 * Unit,
      green_time_east |-> 30 * Unit, green_time_west |-> 30 * Unit,
      yellow_time |-> 3 * Unit, all_red_time |-> 2 * Unit],
     [cycle_length |-> 60, green_time_north |-> 50 * Unit, green_time_south |-> 20 * Unit,
      green_time_east |-> 40 * Unit, green_time_west |-> 10 * Unit,
      yellow_time |-> 3 * Unit, all_red_time |-> 2 * Unit]}

Evaluators == {"inverse_cycle", "simulation", "stochastic", "faulty"}
Deterministic == {"inverse_cycle", "simulation"}

\* no fitness function called
FitIdle == fit = None

\* no QueueModel in use
QmIdle == qm = None

\* no simulator in use
SimIdle ==
    /\ signal_timing = None
    /\ state = FreshState
    /\ vehicle_counter = 0
    /\ events = <<>>
    /\ simPc = "unused"
    /\ genDirs = <<>>
    /\ genTime = 0
    /\ evIdx = 1
    /\ duration = 0
    /\ runs = 0
    /\ prior = [processed |-> FALSE, queued |-> FALSE, events |-> FALSE]
    /\ results = None

\* GeneticAlgorithm.__init__ (lines 58-69) and the caller's choice of the
\* arguments it will pass to optimize
Init ==
    /\ SimIdle
    /\ FitIdle
    /\ QmIdle
    /\ ga \in Hyperparameters
    /\ inputs \in [initial_timing : InitialTimings, fitness_function : Evaluators]
    /\ pyRng = SeedPy(ga.random_seed)
    /\ npRng = SeedNp(ga.random_seed)
    /\ population = <<>>
    /\ best_individual = None
    /\ fitness_history = <<>>
    /\ gaPc = "constructed"
    /\ generation = 0
    /\ summary = None
    /\ calls = 0
    /\ instances = 1
    /\ history_base = 0
    /\ first_run = None
    /\ parents = <<>>
    /\ offspring = <<>>
    /\ evaluations = 0
    /\ ownNp = SeedNp(ga.random_seed)

\* Construct without lines 64-65: the generators are not seeded again
Construct_NoSeed ==
    /\ gaPc \in {"returned", "raised", "evaluator_raised"}
    /\ instances < MaxInstances
    /\ population' = <<>>
    /\ best_individual' = None
    /\ fitness_history' = <<>>
    /\ gaPc' = "constructed"
    /\ generation' = 0
    /\ calls' = 0
    /\ instances' = instances + 1
    /\ history_base' = 0
    /\ evaluations' = 0
    /\ UNCHANGED <<ga, inputs, summary, first_run, parents, offspring, pyRng,
                   npRng, ownNp, simVars, fitVars, qmVars>>

\* a second GeneticAlgorithm constructed with the same arguments
\* (__init__, lines 58-69)
Construct ==
    /\ gaPc \in {"returned", "raised", "evaluator_raised"}
    /\ instances < MaxInstances
    /\ pyRng' = SeedPy(ga.random_seed)
    /\ npRng' = SeedNp(ga.random_seed)
    /\ ownNp' = SeedNp(ga.random_seed)
    /\ evaluations' = 0
    /\ population' = <<>>
    /\ best_individual' = None
    /\ fitness_history' = <<>>
    /\ gaPc' = "constructed"
    /\ generation' = 0
    /\ calls' = 0
    /\ instances' = instances + 1
    /\ history_base' = 0
    /\ UNCHANGED <<ga, inputs, summary, first_run, parents, offspring, simVars, fitVars, qmVars>>

\* optimize up to the evolution loop (lines 88-98); an exception of the
\* fitness function leaves optimize at once
Optimize ==
    /\ gaPc \in {"constructed", "returned"}
    /\ calls < MaxCalls
    /\ \E init \in {InitializePopulation(inputs.initial_timing,
                                          ga.population_size, pyRng)} :
       \E ev \in {EvaluatePopulation(init.population, inputs.fitness_function,
                                     npRng)} :
          /\ population' = ev.population
          /\ pyRng' = init.py
          /\ npRng' = ev.np
          /\ evaluations' = ev.made
          /\ gaPc' = IF ev.raised THEN "evaluator_raised" ELSE "loop"
          /\ inputs' = [inputs EXCEPT !.initial_timing =
                                Written(CallerRef, @, init.writes)]
    /\ generation' = 0
    /\ calls' = calls + 1
    /\ history_base' = Len(fitness_history)
    /\ UNCHANGED <<ga, best_individual, fitness_history, summary,
                   instances, first_run, parents, offspring, ownNp, simVars,
                   fitVars, qmVars>>

\* the evolution loop, lines 101-103: the parents of this generation, when
\* the tournaments can be drawn
SelectParents ==
    /\ gaPc = "loop"
    /\ generation < ga.generations
    /\ Len(population) >= 3
    /\ \E sel \in {Selection(population, ga.population_size, pyRng)} :
          /\ parents' = sel.parents
          /\ pyRng' = sel.py
    /\ offspring' = <<>>
    /\ gaPc' = "offspring"
    /\ UNCHANGED <<ga, population, best_individual, fitness_history, npRng,
                   generation, inputs, summary, calls, instances, history_base,
                   first_run, evaluations, ownNp, simVars, fitVars, qmVars>>

\* lines 106-122: crossover and mutation of the pairs of parents; what they
\* write into a dict is seen by every individual holding that dict
BreedOffspring ==
    /\ gaPc = "offspring"
    /\ \E bred \in {Breed(1, parents, ga, pyRng, npRng)} :
          /\ offspring' = ApplyWrites(bred.offspring, bred.writes)
          /\ parents' = ApplyWrites(parents, bred.writes)
          /\ population' = ApplyWrites(population, bred.writes)
          /\ inputs' = [inputs EXCEPT !.initial_timing =
                                Written(CallerRef, @, bred.writes)]
          /\ pyRng' = bred.py
          /\ npRng' = bred.np
    /\ ownNp' = Breed(1, parents, ga, pyRng, ownNp).np
    /\ gaPc' = "replace"
    /\ UNCHANGED <<ga, best_individual, fitness_history,
                   generation, summary, calls, instances, history_base,
                   first_run, evaluations, simVars, fitVars, qmVars>>

\* lines 124-137: elitism, the new population, its evaluation, the best;
\* an exception of the fitness function (line 132) leaves optimize at once
Replace ==
    /\ gaPc = "replace"
    /\ \E ev \in {EvaluatePopulation(NewPopulation(population, offspring, ga),
                                     inputs.fitness_function, npRng)} :
          /\ npRng' = ev.np
          /\ evaluations' = evaluations + ev.made
          /\ IF ev.raised
             THEN /\ population' = ev.population
                  /\ gaPc' = "evaluator_raised"
                  /\ UNCHANGED <<best_individual, fitness_history, generation>>
             ELSE /\ population' = SortByFitness(ev.population)
                  /\ best_individual' = population'[1]
                  /\ fitness_history' = Append(fitness_history, population'[1].fitness)
                  /\ generation' = generation + 1
                  /\ gaPc' = "loop"
    /\ UNCHANGED <<ga, pyRng, parents, offspring, inputs, summary, calls,
                   instances, history_base, first_run, ownNp, simVars, fitVars, qmVars>>

\* an iteration whose random.sample(self.population, 3) raises ValueError:
\* the population is smaller than the tournament (line 253)
SelectRaises ==
    /\ gaPc = "loop"
    /\ generation < ga.generations
    /\ Len(population) < 3
    /\ gaPc' = "raised"
    /\ UNCHANGED <<ga, population, best_individual, fitness_history, pyRng, npRng,
                   generation, inputs, summary, calls, instances, history_base,
                   first_run, parents, offspring, evaluations, ownNp, simVars,
                   fitVars, qmVars>>

\* the result of optimize (lines 143-153)
OptimizationResults ==
    [best_timing |-> best_individual.signal_timing,
     best_fitness |-> best_individual.fitness,
     fitness_history |-> fitness_history,
     generations |-> ga.generations,
     final_population_size |-> Len(population),
     simulation_results |-> best_individual.simulation_results]

\* the loop is over: optimize returns (lines 142-153)
Return ==
    /\ gaPc = "loop"
    /\ generation = ga.generations
    /\ summary' = OptimizationResults
    /\ first_run' = IF instances = 1 /\ calls = 1 THEN OptimizationResults
                    ELSE first_run
    /\ gaPc' = "returned"
    /\ UNCHANGED <<ga, population, best_individual, fitness_history, pyRng, npRng,
                   generation, inputs, calls, instances, history_base, parents,
                   offspring, evaluations, ownNp, simVars, fitVars, qmVars>>

Next ==
    \/ Optimize
    \/ SelectParents
    \/ SelectRaises
    \/ BreedOffspring
    \/ Replace
    \/ Return
    \/ Construct

Spec == Init /\ [][Next]_vars

----------------------------------------------------------------------------
(* The simulator on its own *)

\* no GeneticAlgorithm in use
GAIdle ==
    /\ ga = None
    /\ inputs = None
    /\ pyRng = 0
    /\ npRng = SeedNp(42)
    /\ population = <<>>
    /\ best_individual = None
    /\ fitness_history = <<>>
    /\ gaPc = "unused"
    /\ generation = 0
    /\ summary = None
    /\ calls = 0
    /\ instances = 0
    /\ history_base = 0
    /\ first_run = None
    /\ parents = <<>>
    /\ offspring = <<>>
    /\ evaluations = 0
    /\ ownNp = SeedNp(42)

SimInit == SimConstructed /\ GAIdle /\ FitIdle /\ QmIdle

SimNext ==
    \/ RunSimulation
    \/ GenerateArrival
    \/ GenerateSignals
    \/ ProcessEvent
    \/ FinishSimulation

SimSpec == SimInit /\ [][SimNext]_vars

----------------------------------------------------------------------------
(* fitness_functions.py on its own *)

\* Fitness values are kept exactly, as integer multiples of
\* 1 / (FitnessScale * Unit * total_weight): FitnessScale is the largest of
\* the scale constants of composite_fitness (lines 104-113).
FitnessScale == 2000

\* sum(weights.values()), weights in hundredths
TotalWeight(weights) ==
    weights.throughput + weights.delay + weights.stops + weights.queue

\* calculate_throughput, calculate_delay, calculate_stops and
\* calculate_queue_length (lines 13-66)
CalculateThroughput(simulation_results) == simulation_results.throughput
CalculateDelay(simulation_results) == 0 - simulation_results.avg_delay
CalculateStops(simulation_results) == 0 - simulation_results.avg_stops
CalculateQueueLength(simulation_results) == 0 - simulation_results.max_queue_length

\* score / divisor at the scale FitnessScale, for a divisor of either sign
\* that divides FitnessScale
Normalized(score, divisor) ==
    IF divisor > 0 THEN score * (FitnessScale \div divisor)
    ELSE 0 - score * (FitnessScale \div (0 - divisor))

\* composite_fitness (lines 83-123) for weights of positive sum.
\* throughput in vehicles/hour, avg_delay in ticks, the others in units.
CompositeFitness(simulation_results, weights) ==
    LET throughput_normalized ==
            Normalized(CalculateThroughput(simulation_results), 2000) * Unit
        delay_normalized == Normalized(CalculateDelay(simulation_results), -100)
        stops_normalized ==
            Normalized(CalculateStops(simulation_results), -2) * Unit
        queue_normalized ==
            Normalized(CalculateQueueLength(simulation_results), -50) * Unit
    IN weights.throughput * throughput_normalized
       + weights.delay * delay_normalized
       + weights.stops * stops_normalized
       + weights.queue * queue_normalized

\* the three deductions of penalty_for_constraints, in ticks
GreenShortfall(timing) ==
    LET short(g) == IF g < 10 * Unit THEN (10 * Unit - g) * 10 ELSE 0
    IN short(timing.green_time_north) + short(timing.green_time_south)
       + short(timing.green_time_east) + short(timing.green_time_west)

CycleDeduction(timing) ==
    LET cycle_length == timing.cycle_length
        off == IF cycle_length >= 80 THEN cycle_length - 80 ELSE 80 - cycle_length
    IN IF cycle_length < 45 \/ cycle_length > 120 THEN off * 5 * Unit ELSE 0

GreenExcess(timing) ==
    LET total_green ==
            timing.green_time_north + timing.green_time_south
            + timing.green_time_east + timing.green_time_west
        lost_time == (timing.yellow_time + timing.all_red_time) * 2
        available_green == timing.cycle_length * Unit - lost_time
    IN IF total_green > available_green
       THEN (total_green - available_green) * 20 ELSE 0

\* PenaltyForConstraints with the deductions added instead of subtracted
PenaltyForConstraints_Added(timing) ==
    GreenShortfall(timing) + CycleDeduction(timing)
    + GreenExcess(timing)

\* penalty_for_constraints (lines 136-164), in ticks
PenaltyForConstraints(timing) ==
    0 - GreenShortfall(timing) - CycleDeduction(timing)
      - GreenExcess(timing)

\* evaluate_fitness_with_constraints (lines 183-188): the penalty brought to
\* the scale of the composite fitness
EvaluateFitnessWithConstraints(simulation_results, timing, weights) ==
    CompositeFitness(simulation_results, weights)
    + PenaltyForConstraints(timing) * FitnessScale * TotalWeight(weights)

\* the timings the functions are called with: the plan of the tests and
\* variations of each of its fields, valid and not
FitTimings ==
    [cycle_length : {40, 45, 90, 120, 125},
     green_time_north : {5 * Unit, 10 * Unit, 35 * Unit},
     green_time_south : {10 * Unit, 35 * Unit},
     green_time_east : {5 * Unit, 10 * Unit, 30 * Unit},
     green_time_west : {10 * Unit, 30 * Unit},
     yellow_time : {3 * Unit}, all_red_time : {2 * Unit}]

\* simulation results: those of the tests and variations
FitResults ==
    [throughput : {0, 1500}, avg_delay : {0, 25 * Unit, 50 * Unit},
     avg_stops : {0, 1, 2}, max_queue_length : {1, 8, 20}]

\* weights in hundredths: the default of composite_fitness and one other
FitWeights ==
    {[throughput |-> 35, delay |-> 35, stops |-> 15, queue |-> 15],
     [throughput |-> 10, delay |-> 50, stops |-> 20, queue |-> 20]}

FitInit ==
    /\ SimIdle
    /\ GAIdle
    /\ QmIdle
    /\ fit \in [signal_timing : FitTimings, simulation_results : FitResults,
                weights : FitWeights, called : {{}}, penalty : {0},
                composite : {0}, total : {0}]

\* a call of penalty_for_constraints(signal_timing)
CallPenalty ==
    /\ fit # None
    /\ "penalty" \notin fit.called
    /\ fit' = [fit EXCEPT !.penalty = PenaltyForConstraints(fit.signal_timing),
                       !.called = @ \cup {"penalty"}]
    /\ UNCHANGED <<simVars, gaVars, qmVars>>

\* a call of composite_fitness(simulation_results, weights)
CallComposite ==
    /\ fit # None
    /\ "composite" \notin fit.called
    /\ fit' = [fit EXCEPT !.composite =
                    CompositeFitness(fit.simulation_results, fit.weights),
                       !.called = @ \cup {"composite"}]
    /\ UNCHANGED <<simVars, gaVars, qmVars>>

\* a call of evaluate_fitness_with_constraints(simulation_results,
\* signal_timing, weights)
CallEvaluate ==
    /\ fit # None
    /\ "total" \notin fit.called
    /\ fit' = [fit EXCEPT !.total =
                    EvaluateFitnessWithConstraints(fit.simulation_results,
                                                   fit.signal_timing, fit.weights),
                       !.called = @ \cup {"total"}]
    /\ UNCHANGED <<simVars, gaVars, qmVars>>

FitNext ==
    \/ CallPenalty
    \/ CallComposite
    \/ CallEvaluate

FitSpec == FitInit /\ [][FitNext]_vars

----------------------------------------------------------------------------
(* queue_model.py on its own *)

\* Vehicle counts and rates are Python floats.  Rates are kept in
\* hundredths of a vehicle per second and times in ticks, so that a count,
\* rate * time, is an integer number of 1 / (RateScale * Unit) vehicles.
RateScale == 100

\* most simulate_queue_evolution, calculate_delay and level_of_service
\* calls on one QueueModel
MaxQueueCalls == 2
\* largest num_cycles
MaxCycles == 3

\* service_rate default of QueueModel.__init__ (line 18), hundredths
service_rate_default == 50

\* the arguments of the calls
ArrivalRates == {0, 10, 25, 40}
GreenTimes == {0, 20 * Unit, 30 * Unit}
RedTimes == {0, 30 * Unit}
\* delays (ticks) level_of_service is called with: around each breakpoint
LosDelays ==
    {0 - Unit, 0} \cup UNION {{b * Unit - 1, b * Unit, b * Unit + 1, (b + 1) * Unit}
                               : b \in {10, 20, 35, 55, 80}}

\* QueueModel.__init__ (lines 25-26)
QmConstructed ==
    qm = [service_rate |-> service_rate_default, queue_history |-> <<>>,
          pc |-> "idle", call |-> "none", args |-> None, cycle |-> 0,
          current_queue |-> 0, queue_evolution |-> <<>>, returned |-> None,
          raised |-> FALSE, calls |-> 0]

\* simulate_queue_evolution up to its loop (lines 152-155)
SimulateQueueEvolution ==
    /\ qm.pc = "idle"
    /\ qm.calls < MaxQueueCalls
    /\ \E arrival_rate \in ArrivalRates, green_time \in GreenTimes,
          red_time \in RedTimes, num_cycles \in 0..MaxCycles :
          qm' = [qm EXCEPT !.pc = "cycles", !.call = "simulate_queue_evolution",
                           !.args = [arrival_rate |-> arrival_rate,
                                     green_time |-> green_time,
                                     red_time |-> red_time,
                                     num_cycles |-> num_cycles],
                           !.cycle = 0, !.current_queue = 0,
                           !.queue_evolution = <<>>, !.returned = None,
                           !.raised = FALSE, !.calls = @ + 1]
    /\ UNCHANGED <<simVars, gaVars, fitVars>>

\* CycleData losing the vehicles the green could not serve
CycleData_Drop(cycle, queue_at_green, args, service_rate) ==
    LET cycle_length == args.green_time + args.red_time
        arrivals == args.arrival_rate * cycle_length
        served == Min(queue_at_green + arrivals, service_rate * args.green_time)
    IN [cycle |-> cycle, arrivals |-> arrivals, served |-> served,
        queue_start |-> queue_at_green, queue_end |-> 0,
        max_queue |-> queue_at_green + args.arrival_rate * args.red_time,
        delay |-> 0]

\* the record of one cycle (lines 159-184); delay in ticks
CycleData(cycle, queue_at_green, args, service_rate) ==
    LET cycle_length == args.green_time + args.red_time
        arrivals == args.arrival_rate * cycle_length
        service_capacity == service_rate * args.green_time
        served == Min(queue_at_green + arrivals, service_capacity)
        current_queue == Max(0, queue_at_green + arrivals - served)
    IN [cycle |-> cycle, arrivals |-> arrivals, served |-> served,
        queue_start |-> queue_at_green, queue_end |-> current_queue,
        max_queue |-> queue_at_green + args.arrival_rate * args.red_time,
        delay |-> IF arrivals > 0
                  THEN RoundDiv((queue_at_green + current_queue) * cycle_length,
                                2 * arrivals)
                  ELSE 0]

\* one iteration of the loop of simulate_queue_evolution (lines 157-186)
QueueCycle ==
    /\ qm.pc = "cycles"
    /\ qm.cycle < qm.args.num_cycles
    /\ \E cycle_data \in {CycleData(qm.cycle, qm.current_queue, qm.args,
                                     qm.service_rate)} :
          qm' = [qm EXCEPT !.queue_evolution = Append(@, cycle_data),
                           !.current_queue = cycle_data.queue_end,
                           !.cycle = @ + 1]
    /\ UNCHANGED <<simVars, gaVars, fitVars>>

\* the end of simulate_queue_evolution (lines 188-189)
QueueReturn ==
    /\ qm.pc = "cycles"
    /\ qm.cycle >= qm.args.num_cycles
    /\ qm' = [qm EXCEPT !.queue_history = qm.queue_evolution,
                        !.returned = qm.queue_evolution, !.pc = "idle"]
    /\ UNCHANGED <<simVars, gaVars, fitVars>>

\* whether calculate_delay raises ZeroDivisionError: cycle_length = 0 at
\* line 81, or, with x < 1.0, the divisor 2 * arrival_rate * (1 - x) = 0 at
\* line 92.  x < 1.0 is arrival_rate * cycle_length < service_rate *
\* green_time when the capacity is positive, and x = 1.0 otherwise.
DelayRaises(arrival_rate, green_time, red_time, service_rate) ==
    LET cycle_length == green_time + red_time
        undersaturated ==
            /\ service_rate * green_time > 0
            /\ arrival_rate * cycle_length < service_rate * green_time
    IN \/ cycle_length = 0
       \/ undersaturated /\ 2 * arrival_rate = 0

\* calculate_delay (lines 78-102) when it returns: delays in ticks,
\* saturation in hundredths.  With x = arrival_rate * cycle_length /
\* (service_rate * green_time) the two formulas of lines 86 and 92 are
\*   red_time^2 / (2 * cycle_length * (1 - arrival_rate / service_rate))
\*   x^2 / (2 * arrival_rate * (1 - x))
CalculateDelayRecord(arrival_rate, green_time, red_time, service_rate) ==
    LET cycle_length == green_time + red_time
        capacity == service_rate * green_time
        demand == arrival_rate * cycle_length
        undersaturated == capacity > 0 /\ demand < capacity
        uniform_delay ==
            IF undersaturated
            THEN RoundDiv(red_time * red_time * service_rate,
                          2 * cycle_length * (service_rate - arrival_rate))
            ELSE RoundDiv(cycle_length, 2)
        random_delay ==
            IF undersaturated
            THEN RoundDiv(RateScale * Unit * arrival_rate * cycle_length * cycle_length,
                          2 * capacity * (capacity - demand))
            ELSE RoundDiv(cycle_length, 4)
    IN [uniform_delay |-> uniform_delay, random_delay |-> random_delay,
        total_delay |-> uniform_delay + random_delay,
        saturation |-> IF capacity > 0 THEN RoundDiv(RateScale * demand, capacity)
                       ELSE RateScale]

\* a call of calculate_delay(arrival_rate, green_time, red_time)
CallCalculateDelay ==
    /\ qm.pc = "idle"
    /\ qm.calls < MaxQueueCalls
    /\ \E arrival_rate \in ArrivalRates, green_time \in GreenTimes,
          red_time \in RedTimes :
          LET raises == DelayRaises(arrival_rate, green_time, red_time,
                                    qm.service_rate)
          IN qm' = [qm EXCEPT
                      !.call = "calculate_delay",
                      !.args = [arrival_rate |-> arrival_rate,
                                green_time |-> green_time, red_time |-> red_time],
                      !.raised = raises,
                      !.returned = IF raises THEN None
                                   ELSE CalculateDelayRecord(arrival_rate,
                                            green_time, red_time, qm.service_rate),
                      !.calls = @ + 1]
    /\ UNCHANGED <<simVars, gaVars, fitVars>>

\* a call of level_of_service(delay)
CallLevelOfService ==
    /\ qm.pc = "idle"
    /\ qm.calls < MaxQueueCalls
    /\ \E delay \in LosDelays :
          qm' = [qm EXCEPT !.call = "level_of_service",
                           !.args = [delay |-> delay],
                           !.raised = FALSE,
                           !.returned = [grade |-> LevelOfService(delay)],
                           !.calls = @ + 1]
    /\ UNCHANGED <<simVars, gaVars, fitVars>>

QueueInit == SimIdle /\ GAIdle /\ FitIdle /\ QmConstructed

QueueNext ==
    \/ SimulateQueueEvolution
    \/ QueueCycle
    \/ QueueReturn
    \/ CallCalculateDelay
    \/ CallLevelOfService

QueueSpec == QueueInit /\ [][QueueNext]_vars

----------------------------------------------------------------------------
(* Properties of the genetic algorithm, checked under Spec *)

Individuals(seq) == {seq[i] : i \in 1..Len(seq)}

\* the values appended to fitness_history by the current optimize call never
\* decrease from one generation to the next
HistoryNonDecreasing ==
    \A i \in (history_base + 1)..(Len(fitness_history) - 1) :
        fitness_history[i] <= fitness_history[i + 1]

\* C1, as claimed: with elitism_count >= 1 the values appended to
\* fitness_history are non-decreasing for any evaluator that never raises,
\* whether or not it returns the same fitness for the same timing.
C1_NonDecreasingAnyEvaluator ==
    ga.elitism_count >= 1 => HistoryNonDecreasing

\* C1, amended: with elitism_count >= 1 and an evaluator that returns the
\* same fitness whenever it is called on the same timing, the values appended
\* to fitness_history by one optimize call are non-decreasing.
C1_NonDecreasingDeterministic ==
    (ga.elitism_count >= 1 /\ inputs.fitness_function \in Deterministic)
        => HistoryNonDecreasing

\* an elitist run with a deterministic evaluator whose best fitness improved
\* from one generation to the next
C1_Witness ==
    /\ ga.elitism_count >= 1
    /\ inputs.fitness_function \in Deterministic
    /\ \E i \in (history_base + 1)..(Len(fitness_history) - 1) :
          fitness_history[i] < fitness_history[i + 1]

\* C2: two runs, each a fresh GeneticAlgorithm with the same random_seed and
\* hyperparameters followed by optimize on the same initial_timing and the
\* same deterministic evaluator, return the same fitness_history and the same
\* best timing.
C2_SeededRunsAgree ==
    (/\ instances = 2
     /\ calls = 1
     /\ gaPc = "returned"
     /\ inputs.fitness_function \in Deterministic)
        => /\ summary.fitness_history = first_run.fitness_history
           /\ summary.best_timing = first_run.best_timing

\* the second run has returned, and its best timing is not the initial one:
\* the random choices decided the result
C2_Witness ==
    /\ instances = 2
    /\ calls = 1
    /\ gaPc = "returned"
    /\ inputs.fitness_function \in Deterministic
    /\ Len(summary.fitness_history) >= 2
    /\ summary.best_timing # inputs.initial_timing

\* C3, as claimed: every optimize call with generations = G, on a fresh
\* instance or on one whose optimize was called before, returns a summary
\* whose fitness_history has exactly G entries.
C3_HistoryHasGEntries ==
    gaPc = "returned" => Len(summary.fitness_history) = ga.generations

\* C4, as claimed: for population_size >= 1 and 0 <= elitism_count <=
\* population_size the population formed at the end of each generation has
\* exactly population_size individuals, and so final_population_size equals
\* population_size.
C4_PopulationSizeKept ==
    (ga.population_size >= 1 /\ ga.elitism_count \in 0..ga.population_size)
        => /\ (gaPc = "loop" /\ generation >= 1)
                => Len(population) = ga.population_size
           /\ gaPc = "returned"
                => summary.final_population_size = ga.population_size

\* every individual optimize holds: the population, the selected parents,
\* the offspring and the best individual
Held ==
    Individuals(population) \cup Individuals(parents) \cup Individuals(offspring)
    \cup (IF best_individual = None THEN {} ELSE {best_individual})

\* C5: with initial_timing's cycle_length in [45, 120] and the default
\* constraints, every individual of every population during optimize and the
\* returned best timing have 45 <= cycle_length <= 120.
C5_CycleLengthInBounds ==
    (inputs.initial_timing.cycle_length \in 45..120)
        => /\ \A x \in Held : x.signal_timing.cycle_length \in 45..120
           /\ gaPc = "returned" => summary.best_timing.cycle_length \in 45..120

\* the offspring hold a mutated individual whose cycle_length is 45 or 120
\* and is that of none of the parents: a cycle_length produced by
\* perturbation, clip and int()
C5_Witness ==
    /\ inputs.initial_timing.cycle_length \in 45..120
    /\ gaPc = "replace"
    /\ \E x \in Individuals(offspring) :
          /\ x.made_by = "mutation"
          /\ x.signal_timing.cycle_length \in {45, 120}
          /\ \A p \in Individuals(parents) :
                p.signal_timing.cycle_length # x.signal_timing.cycle_length

\* the individuals whose timing was built by random initialisation,
\* crossover or mutation
Generated == {x \in Held : x.made_by # "initial"}

PairsEqual(t) ==
    /\ t.green_time_north = t.green_time_south
    /\ t.green_time_east = t.green_time_west

\* C6, as claimed: after _normalize_green_times the NS green plus the EW
\* green is at most cycle_length - 2*(yellow_time + all_red_time), north
\* equals south and east equals west, for every individual the GA generates
\* by random initialisation, crossover or mutation.
C6_GreenFitsExactly ==
    \A x \in Generated :
        /\ x.signal_timing.green_time_north + x.signal_timing.green_time_east
              <= AvailableGreen(x.signal_timing)
        /\ PairsEqual(x.signal_timing)

\* C6, amended: the NS green plus the EW green is at most cycle_length -
\* 2*(yellow_time + all_red_time) plus the rounding error of the two scaled
\* values (here one tick), north equals south and east equals west, for
\* every individual generated by random initialisation, crossover or mutation.
C6_GreenFitsUpToRounding ==
    \A x \in Generated :
        /\ x.signal_timing.green_time_north + x.signal_timing.green_time_east
              <= AvailableGreen(x.signal_timing) + 1
        /\ PairsEqual(x.signal_timing)

\* a generated individual whose green times were scaled down: they fill the
\* available green to within the rounding error
C6_Witness ==
    \E x \in Generated :
        /\ x.signal_timing.green_time_north + x.signal_timing.green_time_east
              >= AvailableGreen(x.signal_timing)
        /\ x.signal_timing.green_time_north # x.signal_timing.green_time_east

----------------------------------------------------------------------------
(* Properties of the simulator, checked under SimSpec *)

\* a playback step: one event of the sorted list was processed
Played == simPc = "play" /\ simPc' = "play" /\ evIdx' = evIdx + 1

\* the phase covers the direction
Covers(phase, d) ==
    \/ phase = "NS" /\ d \in {"N", "S"}
    \/ phase = "EW" /\ d \in {"E", "W"}

\* the signal-change events processed so far
SignalsProcessed ==
    {k \in 1..(evIdx - 1) : k <= Len(events) /\ events[k].type = "signal_change"}

\* C7, as claimed: after a signal-change event labelled P has been
\* processed current_phase equals P (the phase is NS during the blocks
\* scheduled for NS and EW during those scheduled for EW), and consecutive
\* signal changes alternate between NS and EW.
C7_PhaseFollowsSchedule ==
    simPc \in {"play", "done"} =>
        /\ \A k \in SignalsProcessed :
              (\A j \in SignalsProcessed : j <= k)
                  => state.current_phase = events[k].data
        /\ \A k \in SignalsProcessed, j \in SignalsProcessed :
              (k < j /\ \A m \in SignalsProcessed : ~(k < m /\ m < j))
                  => events[k].data # events[j].data

\* C8: a vehicle is served only at an event at which the current phase
\* covers its direction and the remaining green of that phase, nominal green
\* minus the time spent in the phase, is positive; the queues of the other
\* directions are not served.
C8_ServedOnlyOnGreen ==
    [][Played =>
        LET before == Len(state.vehicles_processed)
            phase == state'.current_phase
            nominal == IF phase = "NS" THEN signal_timing.green_time_north
                       ELSE signal_timing.green_time_east
            elapsed == state'.current_time - state'.phase_start_time
        IN /\ \A i \in (before + 1)..Len(state'.vehicles_processed) :
                 /\ Covers(phase, state'.vehicles_processed[i].direction)
                 /\ nominal - elapsed > 0
           /\ \A d \in DirSet :
                 ~Covers(phase, d) =>
                    /\ Len(state'.queues[d]) >= Len(state.queues[d])
                    /\ SubSeq(state'.queues[d], 1, Len(state.queues[d]))
                          = state.queues[d]
    ]_vars

\* vehicles have been served while others wait in a queue
C8_Witness ==
    /\ Len(state.vehicles_processed) > 0
    /\ QueuedCount(state) > 0

Processed == Individuals(state.vehicles_processed)
Queued(d) == Individuals(state.queues[d])

\* C9: within a direction vehicles are served in order of arrival; a served
\* vehicle is stamped once, with departure_time the current_time of the
\* serving event and delay = departure_time - arrival_time >= 0, and is not
\* modified afterwards.
C9_FifoStampedOnce ==
    /\ [](/\ \A v \in Processed :
                /\ v.delay = v.departure_time - v.arrival_time
                /\ v.delay >= 0
                /\ v.departure_time <= state.current_time
                /\ \A u \in Queued(v.direction) :
                      v.id < u.id /\ v.arrival_time <= u.arrival_time
          /\ \A d \in DirSet :
                /\ \A u \in Queued(d) : u.departure_time = 0 /\ u.delay = 0
                /\ \A i \in 1..Len(state.queues[d]), j \in 1..Len(state.queues[d]) :
                      i < j => state.queues[d][i].id < state.queues[d][j].id)
    /\ [][Played =>
            LET before == Len(state.vehicles_processed)
            IN /\ Len(state'.vehicles_processed) >= before
               /\ SubSeq(state'.vehicles_processed, 1, before)
                     = state.vehicles_processed
               /\ \A i \in (before + 1)..Len(state'.vehicles_processed) :
                     state'.vehicles_processed[i].departure_time
                        = state'.current_time
       ]_vars

\* a vehicle was served after waiting while a later arrival of its direction
\* is still queued
C9_Witness ==
    \E v \in Processed :
        /\ v.delay > 0
        /\ Queued(v.direction) # {}

ArrivalEvents == {k \in 1..Len(events) : events[k].type = "arrival"}

\* C10: at the start of every run_simulation call the intersection state is
\* fresh, the vehicle counter is 0 and the event list is empty, so that a
\* run only ever holds vehicles and events generated by itself.
C10_FreshRun ==
    /\ [][runs' = runs + 1 =>
            /\ state' = FreshState
            /\ vehicle_counter' = 0
            /\ events' = <<>>
       ]_vars
    /\ [](/\ Cardinality(ArrivalEvents) = vehicle_counter
          /\ Len(state.vehicles_processed) + QueuedCount(state) <= vehicle_counter
          /\ \A v \in Processed \cup UNION {Queued(d) : d \in DirSet} :
                \E k \in ArrivalEvents :
                    /\ k < evIdx
                    /\ events[k].data.id = v.id
                    /\ events[k].data.arrival_time = v.arrival_time
                    /\ events[k].data.direction = v.direction)

\* a second run has finished with served vehicles on a simulator whose first
\* run left served vehicles, queued vehicles and events behind
C10_Witness ==
    /\ runs = 2
    /\ simPc = "done"
    /\ prior.processed
    /\ prior.queued
    /\ prior.events
    /\ Len(state.vehicles_processed) > 0

\* C11, as claimed: for every signal timing, those with zero green times
\* included, and every duration > 0, run_simulation neither loops forever nor
\* raises: a call that has begun is generating, playing back or has returned
\* its metrics record.
C11_RunReturns ==
    /\ simPc \notin {"diverged", "raised"}
    /\ simPc = "done" => results # None

\* C12, as claimed: whenever a run ends with no vehicle served (all volumes
\* zero included) the returned record has throughput = 0, level_of_service =
\* 'F' and total_vehicles_processed = 0.
C12_NothingServedRecord ==
    (simPc = "done" /\ state.vehicles_processed = <<>>)
        => /\ results.throughput = 0
           /\ results.level_of_service = "F"
           /\ "total_vehicles_processed" \in DOMAIN results
           /\ results.total_vehicles_processed = 0

----------------------------------------------------------------------------
(* Properties of the fitness functions, checked under FitSpec *)

\* the SignalTiming invariants: every green time at least 10 s, cycle_length
\* in [45, 120], NS green + EW green within the available green
ValidTiming(t) ==
    /\ t.green_time_north >= 10 * Unit
    /\ t.green_time_south >= 10 * Unit
    /\ t.green_time_east >= 10 * Unit
    /\ t.green_time_west >= 10 * Unit
    /\ t.cycle_length \in 45..120
    /\ RoundDiv(t.green_time_north + t.green_time_south, 2)
          + RoundDiv(t.green_time_east + t.green_time_west, 2)
          <= AvailableGreen(t)

\* C13, as claimed: penalty_for_constraints returns 0 for every timing that
\* satisfies the SignalTiming invariants.
C13_ValidTimingNoPenalty ==
    ("penalty" \in fit.called /\ ValidTiming(fit.signal_timing)) => fit.penalty = 0

\* C14: penalty_for_constraints never returns a positive value, returns a
\* negative one whenever a green time is below 10 s, and
\* evaluate_fitness_with_constraints is never greater than composite_fitness
\* of the same results and weights.
C14_PenaltyNeverPositive ==
    /\ "penalty" \in fit.called =>
          /\ fit.penalty <= 0
          /\ (\E g \in {fit.signal_timing.green_time_north,
                         fit.signal_timing.green_time_south,
                         fit.signal_timing.green_time_east,
                         fit.signal_timing.green_time_west} : g < 10 * Unit)
                => fit.penalty < 0
    /\ ("total" \in fit.called /\ "composite" \in fit.called) => fit.total <= fit.composite
    /\ ("total" \in fit.called /\ "penalty" \in fit.called /\ fit.penalty < 0)
          => fit.total < CompositeFitness(fit.simulation_results, fit.weights)

\* the three functions were called on a timing whose cycle_length is in
\* range and whose north green time is below 10 s
C14_Witness ==
    /\ "penalty" \in fit.called /\ "total" \in fit.called /\ "composite" \in fit.called
    /\ fit.signal_timing.green_time_north < 10 * Unit
    /\ fit.signal_timing.green_time_south >= 10 * Unit
    /\ fit.signal_timing.cycle_length \in 45..120
    /\ fit.penalty < 0
    /\ fit.total < fit.composite

\* results that differ from r in the one metric named and are larger in it
LargerIn(r, metric) ==
    {q \in FitResults :
        /\ q[metric] > r[metric]
        /\ \A m \in DOMAIN r : m # metric => q[m] = r[m]}

\* C15, as claimed: with positive weights and the other metrics held fixed,
\* a result with a larger avg_delay, avg_stops or max_queue_length never has
\* a higher composite_fitness.
C15_LargerCostNotFitter ==
    "composite" \in fit.called =>
        \A metric \in {"avg_delay", "avg_stops", "max_queue_length"} :
            \A q \in LargerIn(fit.simulation_results, metric) :
                CompositeFitness(q, fit.weights) <= fit.composite

----------------------------------------------------------------------------
(* Failure and randomness of the genetic algorithm, checked under Spec *)

\* the caller's fitness function raises on the individual's timing
Raises(x) ==
    FitnessFunction(inputs.fitness_function, x.signal_timing, npRng).raised

\* the position of the first individual the fitness function raises on
FirstRaising(pop) ==
    CHOOSE i \in 1..Len(pop) :
        Raises(pop[i]) /\ \A j \in 1..(i - 1) : ~Raises(pop[j])

\* C16: an exception of the fitness function, in the initial evaluation or
\* in a generation, ends optimize at once: optimize goes on only with
\* populations on which no call raised; the call that raises is the last one
\* made (the individuals after it are not evaluated, there is no retry);
\* nothing is returned and the history and the best individual are left as
\* they were.
C16_EvaluatorExceptionAborts ==
    /\ [](gaPc \in {"loop", "offspring", "replace", "returned"}
            => \A x \in Individuals(population) : ~Raises(x))
    /\ [][(gaPc # "evaluator_raised" /\ gaPc' = "evaluator_raised") =>
            /\ summary' = summary
            /\ first_run' = first_run
            /\ fitness_history' = fitness_history
            /\ best_individual' = best_individual
            /\ evaluations' = (IF gaPc = "replace" THEN evaluations ELSE 0)
                                + FirstRaising(population')
       ]_vars
    /\ [][gaPc = "evaluator_raised" =>
            /\ gaPc' \in {"evaluator_raised", "constructed"}
            /\ gaPc' = "evaluator_raised" => evaluations' = evaluations
       ]_vars

\* the fitness function raised inside a generation, on an individual that
\* is neither the first nor the last of the new population
C16_Witness ==
    /\ gaPc = "evaluator_raised"
    /\ calls = 1
    /\ parents # <<>>
    /\ \E i \in 2..(Len(population) - 1) : i = FirstRaising(population)

\* C17, as claimed: with elitism_count > population_size the construction
\* fails, so no optimize call goes on with such parameters and none forms a
\* population whose size differs from population_size.
C17_MalformedRejected ==
    ga.elitism_count > ga.population_size
        => /\ gaPc \notin {"loop", "offspring", "replace", "returned"}
           /\ Len(population) \in {0, ga.population_size}

\* C18, as claimed: for population_size >= 1, generations >= 1,
\* 0 <= elitism_count <= population_size and a fitness function that never
\* raises, optimize raises no exception and returns after exactly
\* `generations` iterations of the loop.
C18_CompletesNormally ==
    (/\ ga.population_size >= 1
     /\ ga.generations >= 1
     /\ ga.elitism_count \in 0..ga.population_size
     /\ inputs.fitness_function # "faulty")
        => /\ gaPc \notin {"raised", "evaluator_raised"}
           /\ gaPc = "returned" => generation = ga.generations

\* C19, as claimed: the offspring of every generation, Gaussian
\* perturbations included, are those that a generator owned by the instance,
\* seeded with random_seed and drawn from by the instance alone, produces:
\* draws and reseeding by the fitness function in between change nothing.
C19_ChoicesFromOwnSeed ==
    [][(gaPc = "offspring" /\ gaPc' = "replace")
            => offspring' = Breed(1, parents, ga, pyRng, ownNp).offspring
    ]_vars

\* the dicts held by the individuals of seq
Refs(seq) == {seq[i].ref : i \in 1..Len(seq)}

\* no two individuals of seq hold the same dict
Unshared(seq) ==
    \A i \in 1..Len(seq), j \in 1..Len(seq) : i # j => seq[i].ref # seq[j].ref

\* C20: selection, crossover and mutation change no evaluated individual:
\* the timings of the population and the caller's initial_timing are the
\* same after the parents were selected and after the offspring were
\* produced; no parent and no offspring holds the dict of a population
\* member, of another offspring or of the caller; and the top elitism_count
\* individuals are in the next population with the timings they had.
C20_EvaluatedIndividualsKept ==
    /\ [](/\ Unshared(population)
          /\ CallerRef \notin Refs(population) \cup Refs(parents) \cup Refs(offspring)
          /\ gaPc \in {"offspring", "replace"} =>
                /\ Unshared(parents)
                /\ Refs(parents) \cap Refs(population) = {}
          /\ gaPc = "replace" =>
                /\ Unshared(offspring)
                /\ Refs(offspring) \cap Refs(population) = {}
                /\ Refs(offspring) \cap Refs(parents) = {})
    /\ [][inputs' = inputs]_vars
    /\ [][(gaPc \in {"loop", "offspring"} /\ gaPc' \in {"offspring", "replace"})
            => population' = population]_vars
    /\ [][(gaPc = "replace" /\ gaPc' # "replace") =>
            \A i \in 1..Min(ga.elitism_count, Len(population)) :
                \E x \in Individuals(population') :
                    /\ x.ref = SortByFitness(population)[i].ref
                    /\ x.signal_timing = SortByFitness(population)[i].signal_timing
       ]_vars

\* offspring have been produced from an elitist population: one was mutated
\* in place, and one is a copy that holds the same timing as a population
\* member in a dict of its own
C20_Witness ==
    /\ gaPc = "replace"
    /\ ga.elitism_count >= 1
    /\ \E x \in Individuals(offspring) : x.made_by = "mutation"
    /\ \E y \in Individuals(offspring), m \in Individuals(population) :
          y.signal_timing = m.signal_timing /\ y.ref # m.ref

----------------------------------------------------------------------------
(* Further properties of the simulator, checked under SimSpec *)

\* the state after the events of the sequence es were processed in order
\* by the playback loop (lines 96-102)
RECURSIVE Playback(_, _)
Playback(st, es) ==
    IF es = <<>> THEN st
    ELSE LET e == Head(es)
             now == [st EXCEPT !.current_time = e.time]
         IN Playback(IF e.type = "arrival" THEN HandleArrival(now, e.data)
                     ELSE HandleSignalChange(now),
                     Tail(es))

\* the next two events of the playback are an arrival and a signal change
\* with the same timestamp
TieAhead ==
    /\ simPc = "play"
    /\ evIdx + 1 <= Len(events)
    /\ events[evIdx].time = events[evIdx + 1].time
    /\ {events[evIdx].type, events[evIdx + 1].type} = {"arrival", "signal_change"}

\* C21, as claimed: an arrival and a signal change with the same timestamp
\* lead to the same phase, the same queues and the same served vehicles with
\* the same departure times in whichever order the two are processed.
C21_TieOrderIrrelevant ==
    TieAhead =>
        LET one == Playback(state, <<events[evIdx], events[evIdx + 1]>>)
            other == Playback(state, <<events[evIdx + 1], events[evIdx]>>)
        IN /\ one.current_phase = other.current_phase
           /\ one.queues = other.queues
           /\ one.vehicles_processed = other.vehicles_processed


\* how many elements of the sequence are the vehicle with this id
Occurrences(id, seq) == Cardinality({i \in 1..Len(seq) : seq[i].id = id})

\* C25: every vehicle whose arrival event has been processed is in exactly
\* one place, once: the queue of its own direction or the served list; a
\* vehicle whose arrival is still to come is in neither; and when the run
\* has ended the arrivals are the served vehicles plus those still queued.
C25_VehiclesConserved ==
    /\ simPc \in {"play", "done"} =>
          \A k \in ArrivalEvents :
              LET v == events[k].data
                  places == [d \in DirSet |-> Occurrences(v.id, state.queues[d])]
                  served == Occurrences(v.id, state.vehicles_processed)
              IN /\ \A d \in DirSet : d # v.direction => places[d] = 0
                 /\ places[v.direction] + served = IF k < evIdx THEN 1 ELSE 0
    /\ simPc = "done" =>
          Cardinality(ArrivalEvents)
             = Len(state.vehicles_processed) + QueuedCount(state)

\* a run with the most arrivals has ended with vehicles served and vehicles
\* still queued
C25_Witness ==
    /\ simPc = "done"
    /\ vehicle_counter = MaxVehicles
    /\ Len(state.vehicles_processed) > 0
    /\ QueuedCount(state) > 0


\* the vehicles served in the current phase block: those added to the
\* served list by the last signal change processed and by the events after it
ServedInBlock ==
    LET last == CHOOSE k \in SignalsProcessed : \A j \in SignalsProcessed : j <= k
        before == Playback(FreshState, SubSeq(events, 1, last - 1))
    IN SubSeq(state.vehicles_processed, Len(before.vehicles_processed) + 1,
              Len(state.vehicles_processed))

\* C26, as claimed: in a phase block, from one signal change to the next,
\* the vehicles served from one direction are never more than
\* floor(service_rate * nominal green of the active phase), however many
\* arrivals trigger a service attempt in the block.
C26_BlockWithinCapacity ==
    (simPc \in {"play", "done"} /\ SignalsProcessed # {}) =>
        \A d \in DirSet :
            Len(SelectSeq(ServedInBlock, LAMBDA v : v.direction = d))
                <= ServiceCapacity(NominalGreen(state.current_phase))


\* C27, as claimed: no event later than simulation_duration is processed:
\* the events played back, current_time and every departure_time are at
\* most simulation_duration.
C27_NothingAfterDuration ==
    simPc \in {"play", "done"} =>
        /\ \A k \in 1..(evIdx - 1) : events[k].time <= duration
        /\ state.current_time <= duration
        /\ \A v \in Processed : v.departure_time <= duration

----------------------------------------------------------------------------
(* Properties of the queue model, checked under QueueSpec *)

\* a call of the named function has returned
Returned(name) == qm.pc = "idle" /\ qm.call = name /\ ~qm.raised

\* C22: level_of_service grades a delay by inclusive upper breakpoints:
\* at most 10 s is A, above 10 up to 20 is B, above 20 up to 35 is C, above
\* 35 up to 55 is D, above 55 up to 80 is E, above 80 is F.
C22_GradeByBreakpoints ==
    Returned("level_of_service") =>
        LET delay == qm.args.delay
            grade == qm.returned.grade
        IN /\ delay <= 10 * Unit => grade = "A"
           /\ (10 * Unit < delay /\ delay <= 20 * Unit) => grade = "B"
           /\ (20 * Unit < delay /\ delay <= 35 * Unit) => grade = "C"
           /\ (35 * Unit < delay /\ delay <= 55 * Unit) => grade = "D"
           /\ (55 * Unit < delay /\ delay <= 80 * Unit) => grade = "E"
           /\ delay > 80 * Unit => grade = "F"

\* the second call graded the delay one tick above the last breakpoint
C22_Witness ==
    /\ Returned("level_of_service")
    /\ qm.calls = 2
    /\ qm.args.delay = 80 * Unit + 1
    /\ qm.returned.grade = "F"

\* C23: simulate_queue_evolution returns num_cycles records; the first
\* starts with an empty queue and every other with the queue the previous
\* one ended with; in every record served is the smaller of queue_start +
\* arrivals and service_rate * green_time, queue_end is queue_start +
\* arrivals - served and not negative, and max_queue is queue_start +
\* arrival_rate * red_time.
C23_QueueEvolutionRecords ==
    Returned("simulate_queue_evolution") =>
        LET out == qm.returned
            args == qm.args
        IN /\ Len(out) = args.num_cycles
           /\ out # <<>> => out[1].queue_start = 0
           /\ \A k \in 2..Len(out) : out[k].queue_start = out[k - 1].queue_end
           /\ \A k \in 1..Len(out) :
                 /\ out[k].served =
                        Min(out[k].queue_start + out[k].arrivals,
                            qm.service_rate * args.green_time)
                 /\ out[k].queue_end =
                        out[k].queue_start + out[k].arrivals - out[k].served
                 /\ out[k].queue_end >= 0
                 /\ out[k].max_queue =
                        out[k].queue_start + args.arrival_rate * args.red_time

\* three cycles were returned in which the green could not serve all the
\* arrivals: the queue grew from cycle to cycle
C23_Witness ==
    /\ Returned("simulate_queue_evolution")
    /\ Len(qm.returned) = 3
    /\ qm.returned[2].queue_start > 0
    /\ qm.returned[3].queue_start > qm.returned[2].queue_start
    /\ qm.returned[3].served > 0

\* C30, as claimed: calculate_delay called with arrival_rate = 0, a positive
\* green_time and a red_time that is not negative does not raise: it returns
\* a record with uniform_delay, random_delay, total_delay and saturation.
C30_ZeroTrafficDelayDefined ==
    (/\ qm.call = "calculate_delay"
     /\ qm.args.arrival_rate = 0
     /\ qm.args.green_time > 0
     /\ qm.args.red_time >= 0)
        => /\ ~qm.raised
           /\ {"uniform_delay", "random_delay", "total_delay", "saturation"}
                 \subseteq DOMAIN qm.returned

----------------------------------------------------------------------------
(* Further properties of the genetic algorithm, checked under Spec *)

\* the fitness the evaluator assigns to the caller's initial_timing
GivenFitness ==
    FitnessFunction(inputs.fitness_function, inputs.initial_timing, npRng).fitness

\* C24: with elitism_count >= 1 and a deterministic evaluator that does not
\* raise, the best_fitness optimize returns is not lower than the fitness
\* the evaluator assigns to initial_timing.
C24_NotWorseThanGiven ==
    (/\ gaPc = "returned"
     /\ ga.elitism_count >= 1
     /\ inputs.fitness_function \in Deterministic)
        => summary.best_fitness >= GivenFitness

\* an elitist run returned a plan that scores better than the one given,
\* which is still a member of the final population
C24_Witness ==
    /\ gaPc = "returned"
    /\ ga.elitism_count >= 1
    /\ inputs.fitness_function \in Deterministic
    /\ summary.best_fitness > GivenFitness
    /\ \E x \in Individuals(population) : x.made_by = "initial"

\* the green-time parameters
GreenParameters ==
    {"green_time_north", "green_time_south", "green_time_east", "green_time_west"}

\* C28, as claimed: every individual made by random initialisation,
\* crossover or mutation has, after its normalisation, each of its four green
\* times within the bound of that parameter, [10, 60] seconds.
C28_GreensWithinBounds ==
    \A x \in Individuals(population) \cup Individuals(offspring) :
        x.made_by \in {"random", "crossover", "mutation"} =>
            \A param \in GreenParameters :
                /\ x.signal_timing[param] >= Constraint(param)[1] * Unit
                /\ x.signal_timing[param] <= Constraint(param)[2] * Unit

\* C29, as claimed: one optimize call invokes the fitness function at most
\* generations * population_size times, the evaluation of the initial
\* population and of every generation's new population counted.
C29_EvaluationsBounded ==
    evaluations <= ga.generations * ga.population_size
====
